---- MODULE Spec2Model ----
(***************************************************************************)
(* Model of two pieces of the block editor:                                *)
(*   - useScrollback, the scroll-tracking reducer of the customize-widgets *)
(*     sidebar block editor;                                               *)
(*   - Form, the legacy-widget edit form that mounts a Control into a      *)
(*     container and decides when to remount it.                           *)
(***************************************************************************)
EXTENDS Integers, Sequences, FiniteSets

\* ------------------------------------------------------------------ bounds
MaxScrollTop == 4
MaxBound == 3
MaxInstances == 4
MaxControls == 3
MaxNotices == 2

\* ------------------------------------------------------------------ state
VARIABLES
    max,                \* useScrollback: the max argument captured by the reducer
    lastScrollTop,      \* useScrollback: lastScrollTop.current
    scrollback,         \* useScrollback: the reducer state (value)
    sample,             \* history: target.scrollTop of the last scroll event
    hist,               \* history: up to two earlier (scrollback, lastScrollTop)
    greatest,           \* history: greatest scrollTop seen so far
    clamped,            \* history: an upward scroll was cut off at max
    phase,              \* Form: "new", "mounted" or "unmounted"
    instance,           \* Form: the instance prop of the last render
    deps,               \* Form: version of the non-instance effect dependencies
    outgoingInstances,  \* Form: outgoingInstances.current
    incomingInstances,  \* Form: incomingInstances.current
    controls,           \* Form: every Control constructed, in order
    container,          \* Form: controls whose element was appended to ref.current
    destroyed,          \* Form: controls on which destroy() was called
    cleanup,            \* Form: the cleanup returned by the last effect run
    notices,            \* Form: notices created through createNotice
    unapplied,          \* Form: instances handed to the parent's onChangeInstance
                        \*       that the parent has not rendered yet
    applied,            \* Form: instances that have been the instance prop
    nextFresh,          \* Form: next unused object identity
    lastOp              \* history: the last Form operation and its arguments

scrollVars == <<max, lastScrollTop, scrollback, sample, hist, greatest, clamped>>
formVars == <<phase, instance, deps, outgoingInstances, incomingInstances,
              controls, container, destroyed, cleanup, notices, unapplied,
              applied, nextFresh, lastOp>>
vars == <<max, lastScrollTop, scrollback, sample, hist, greatest, clamped,
          phase, instance, deps, outgoingInstances, incomingInstances,
          controls, container, destroyed, cleanup, notices, unapplied,
          applied, nextFresh, lastOp>>

\* ============================================================ useScrollback

\* The default value of the max parameter.
Infinity == [isFinite |-> FALSE, value |-> 0]

Finite(n) == [isFinite |-> TRUE, value |-> n]

\* Math.min( max, x ) where max is a number or Infinity.
MathMin(m, x) == IF m.isFinite /\ m.value < x THEN m.value ELSE x

\* Math.max( 0, x )
MathMax(z, x) == IF z > x THEN z ELSE x

\* Plausible slips of the reducer.
reducer_noMin(sb, scrollTop) ==
    LET scrollDiff == scrollTop - lastScrollTop IN
    IF scrollDiff < 0 THEN sb - scrollDiff
    ELSE IF sb > 0 THEN MathMax(0, sb - scrollDiff)
    ELSE sb

reducer_noMax(sb, scrollTop) ==
    LET scrollDiff == scrollTop - lastScrollTop IN
    IF scrollDiff < 0 THEN MathMin(max, sb - scrollDiff)
    ELSE IF sb > 0 THEN sb - scrollDiff
    ELSE sb

reducer_sign(sb, scrollTop) ==
    LET scrollDiff == scrollTop - lastScrollTop IN
    IF scrollDiff < 0 THEN MathMin(max, sb - scrollDiff)
    ELSE IF sb > 0 THEN MathMax(0, sb + scrollDiff)
    ELSE sb

reducer_guard(sb, scrollTop) ==
    LET scrollDiff == scrollTop - lastScrollTop IN
    IF scrollDiff < 0 THEN MathMin(max, sb - scrollDiff)
    ELSE IF sb > 1 THEN MathMax(0, sb - scrollDiff)
    ELSE sb

\* The reducer: the new scrollback for an event whose target.scrollTop is
\* scrollTop, read against lastScrollTop.current.
reducer(sb, scrollTop) ==
    LET scrollDiff == scrollTop - lastScrollTop IN
    IF scrollDiff < 0 THEN MathMin(max, sb - scrollDiff)
    ELSE IF sb > 0 THEN MathMax(0, sb - scrollDiff)
    ELSE sb

\* useRef( element.scrollTop ) and useReducer( reducer, 0 ).
InitScrollback ==
    /\ max \in {Finite(n) : n \in 0..MaxBound} \cup {Infinity}
    /\ lastScrollTop \in 0..MaxScrollTop
    /\ scrollback = 0
    /\ sample = lastScrollTop
    /\ hist = <<>>
    /\ greatest = lastScrollTop
    /\ clamped = FALSE

\* A scroll event is delivered to onScroll: the reducer runs once.
onScroll(scrollTop) ==
    /\ scrollback' = reducer(scrollback, scrollTop)
    /\ lastScrollTop' = scrollTop
    /\ sample' = scrollTop
    /\ hist' = SubSeq(<<[scrollback |-> scrollback,
                         lastScrollTop |-> lastScrollTop]>> \o hist,
                      1, IF Len(hist) = 0 THEN 1 ELSE 2)
    /\ greatest' = IF scrollTop > greatest THEN scrollTop ELSE greatest
    /\ clamped' = (clamped \/ (/\ scrollTop < lastScrollTop
                               /\ max.isFinite
                               /\ scrollback + lastScrollTop - scrollTop > max.value))
    /\ UNCHANGED max

\* ===================================================================== Form

Undefined == "undefined"

Fallback == "An error occured while fetching or updating the widget."

\* No cleanup function is registered (the effect returned undefined).
NoCleanup == [registered |-> FALSE, instance |-> 0, control |-> 0]

NoOp == [op |-> "none", control |-> 0, arg |-> 0]

\* The values onError can be called with.
Errors == { [nullish |-> TRUE, message |-> Undefined],
            [nullish |-> FALSE, message |-> Undefined],
            [nullish |-> FALSE, message |-> ""],
            [nullish |-> FALSE, message |-> "boom"] }

ErrorIndex(e) ==
    IF e.nullish THEN 1
    ELSE IF e.message = Undefined THEN 2
    ELSE IF e.message = "" THEN 3 ELSE 4

\* Controls constructed and appended but not destroyed.
Live == container \ destroyed

InitForm ==
    /\ phase = "new"
    /\ instance = 0
    /\ deps = 0
    /\ outgoingInstances = {}
    /\ incomingInstances = {}
    /\ controls = <<>>
    /\ container = {}
    /\ destroyed = {}
    /\ cleanup = NoCleanup
    /\ notices = <<>>
    /\ unapplied = {}
    /\ applied = {}
    /\ nextFresh = 1
    /\ lastOp = NoOp

\* The cleanup of the previous effect run, if it returned one.
\* Gives the new outgoingInstances and destroyed.
CleanupOutgoing ==
    IF cleanup.registered /\ cleanup.instance \in outgoingInstances
    THEN outgoingInstances \ {cleanup.instance}
    ELSE outgoingInstances

CleanupDestroyed ==
    IF cleanup.registered /\ cleanup.instance \notin outgoingInstances
    THEN destroyed \cup {cleanup.control}
    ELSE destroyed

\* The effect body run for the instance prop inst.
Effect(inst) ==
    IF inst \in incomingInstances
    THEN /\ incomingInstances' = incomingInstances \ {inst}
         /\ cleanup' = NoCleanup
         /\ UNCHANGED <<controls, container>>
    ELSE /\ controls' = Append(controls, [instance |-> inst])
         /\ container' = container \cup {Len(controls) + 1}
         /\ cleanup' = [registered |-> TRUE, instance |-> inst,
                        control |-> Len(controls) + 1]
         /\ UNCHANGED incomingInstances

\* A dependency changed: React runs the previous cleanup, then the effect.
Update(inst) ==
    /\ outgoingInstances' = CleanupOutgoing
    /\ destroyed' = CleanupDestroyed
    /\ Effect(inst)

\* First render and first effect run.
Mount ==
    /\ phase = "new"
    /\ phase' = "mounted"
    /\ instance' = nextFresh
    /\ nextFresh' = nextFresh + 1
    /\ applied' = applied \cup {nextFresh}
    /\ Effect(nextFresh)
    /\ lastOp' = [op |-> "mount", control |-> 0, arg |-> nextFresh]
    /\ UNCHANGED <<deps, outgoingInstances, destroyed, notices, unapplied>>

\* Control k calls the onChangeInstance it was constructed with, passing a
\* new instance object.
ControlChangeInstance(k) ==
    /\ phase = "mounted"
    /\ k \in Live
    /\ nextFresh <= MaxInstances
    /\ outgoingInstances' = outgoingInstances \cup {controls[k].instance}
    /\ incomingInstances' = incomingInstances \cup {nextFresh}
    /\ unapplied' = unapplied \cup {nextFresh}
    /\ nextFresh' = nextFresh + 1
    /\ lastOp' = [op |-> "onChangeInstance", control |-> k, arg |-> nextFresh]
    /\ UNCHANGED <<phase, instance, deps, controls, container, destroyed,
                   cleanup, notices, applied>>

\* The parent re-renders the Form with an instance it received through
\* onChangeInstance.
ApplyReported(x) ==
    /\ phase = "mounted"
    /\ x \in unapplied
    /\ instance' = x
    /\ unapplied' = unapplied \ {x}
    /\ applied' = applied \cup {x}
    /\ Update(x)
    /\ lastOp' = [op |-> "applyReported", control |-> 0, arg |-> x]
    /\ UNCHANGED <<phase, deps, notices, nextFresh>>

\* The parent re-renders the Form with an instance that did not come from
\* the control: an earlier instance (undo, redo) or a new object.
ExternalChange(c) ==
    /\ phase = "mounted"
    /\ c # instance
    /\ c \notin unapplied
    /\ \/ c \in applied /\ nextFresh' = nextFresh
       \/ c = nextFresh /\ c <= MaxInstances /\ nextFresh' = nextFresh + 1
    /\ Len(controls) < MaxControls
    /\ instance' = c
    /\ applied' = applied \cup {c}
    /\ Update(c)
    /\ lastOp' = [op |-> "externalChange", control |-> 0, arg |-> c]
    /\ UNCHANGED <<phase, deps, notices, unapplied>>

\* One of id, idBase, onChangeInstance, onChangeHasPreview, isWide changes.
ChangeDeps ==
    /\ phase = "mounted"
    /\ Len(controls) < MaxControls
    /\ deps' = 1 - deps
    /\ Update(instance)
    /\ lastOp' = [op |-> "changeDeps", control |-> 0, arg |-> instance]
    /\ UNCHANGED <<phase, instance, notices, unapplied, applied, nextFresh>>

\* error?.message ?? __( '...' )
NoticeMessage_noFallback(error) ==
    IF error.nullish THEN Undefined ELSE error.message

NoticeMessage(error) ==
    LET m == IF error.nullish THEN Undefined ELSE error.message IN
    IF m = Undefined THEN Fallback ELSE m

\* Control k calls the onError it was constructed with.
onError(k, error) ==
    /\ phase = "mounted"
    /\ k \in Live
    /\ Len(notices) < MaxNotices
    /\ notices' = Append(notices, [type |-> "error",
                                   message |-> NoticeMessage(error)])
    /\ lastOp' = [op |-> "onError", control |-> k, arg |-> ErrorIndex(error)]
    /\ UNCHANGED <<phase, instance, deps, outgoingInstances, incomingInstances,
                   controls, container, destroyed, cleanup, unapplied,
                   applied, nextFresh>>

\* The Form is removed: React runs the last cleanup, if there is one.
Unmount ==
    /\ phase = "mounted"
    /\ phase' = "unmounted"
    /\ outgoingInstances' = CleanupOutgoing
    /\ destroyed' = CleanupDestroyed
    /\ cleanup' = NoCleanup
    /\ lastOp' = [op |-> "unmount", control |-> 0, arg |-> instance]
    /\ UNCHANGED <<instance, deps, incomingInstances, controls, container,
                   notices, unapplied, applied, nextFresh>>

\* ============================================================ specifications

InitScroll == InitScrollback /\ InitForm

NextScroll ==
    \E scrollTop \in 0..MaxScrollTop : onScroll(scrollTop) /\ UNCHANGED formVars

SpecScroll == InitScroll /\ [][NextScroll]_vars

InitFormOnly ==
    /\ InitForm
    /\ max = Infinity
    /\ lastScrollTop = 0
    /\ scrollback = 0
    /\ sample = 0
    /\ hist = <<>>
    /\ greatest = 0
    /\ clamped = FALSE

NextForm ==
    \/ Mount /\ UNCHANGED scrollVars
    \/ \E k \in 1..MaxControls : ControlChangeInstance(k) /\ UNCHANGED scrollVars
    \/ \E x \in 1..MaxInstances : ApplyReported(x) /\ UNCHANGED scrollVars
    \/ \E c \in 1..MaxInstances : ExternalChange(c) /\ UNCHANGED scrollVars
    \/ ChangeDeps /\ UNCHANGED scrollVars
    \/ \E k \in 1..MaxControls, e \in Errors : onError(k, e) /\ UNCHANGED scrollVars
    \/ Unmount /\ UNCHANGED scrollVars

SpecForm == InitFormOnly /\ [][NextForm]_vars


\* ================================================================== claims

\* ---- useScrollback ------------------------------------------------------

\* C1: after every scroll event the scrollback value is at least 0 and at
\* most max.
C1_ScrollbackWithinBounds ==
    /\ scrollback >= 0
    /\ max.isFinite => scrollback <= max.value

\* C1 witness: an upward scroll was cut off at max and the value sits at max.
C1_Witness ==
    /\ max.isFinite /\ max.value > 0
    /\ clamped
    /\ scrollback = max.value

\* C5: scrolling upward by d and then downward by d returns the accumulator
\* to the value it had before, when the upward step is not cut off at max.
C5_RoundTrip ==
    (/\ Len(hist) = 2
     /\ hist[1].lastScrollTop <= hist[2].lastScrollTop
     /\ lastScrollTop = hist[2].lastScrollTop
     /\ max.isFinite =>
            hist[2].scrollback + hist[2].lastScrollTop - hist[1].lastScrollTop
                <= max.value)
    => scrollback = hist[2].scrollback

\* C5 witness: a round trip over a positive distance from a positive value,
\* under a finite max.
C5_Witness ==
    /\ Len(hist) = 2
    /\ max.isFinite
    /\ hist[1].lastScrollTop < hist[2].lastScrollTop
    /\ lastScrollTop = hist[2].lastScrollTop
    /\ hist[2].scrollback > 0
    /\ hist[2].scrollback + hist[2].lastScrollTop - hist[1].lastScrollTop
           <= max.value
    /\ scrollback = hist[2].scrollback

\* C6: when the accumulator equals max, an upward scroll leaves it at max,
\* however often it is repeated.
C6_ClampIdempotent ==
    [][(/\ max.isFinite
        /\ scrollback = max.value
        /\ sample' < lastScrollTop) => scrollback' = max.value]_vars

\* C6 witness: two upward scrolls in a row, both taken at max.
C6_Witness ==
    /\ Len(hist) = 2
    /\ max.isFinite /\ max.value > 0
    /\ hist[2].scrollback = max.value
    /\ hist[1].lastScrollTop < hist[2].lastScrollTop
    /\ hist[1].scrollback = max.value
    /\ lastScrollTop < hist[1].lastScrollTop
    /\ scrollback = max.value

\* The distance from the greatest scroll position seen to the current one.
DistanceFromGreatest == greatest - lastScrollTop

SpecifiedReduction(acc, prev, new) ==
    LET delta == new - prev IN
    IF delta < 0
    THEN (IF max.isFinite /\ max.value < acc - delta THEN max.value ELSE acc - delta)
    ELSE (IF acc - delta < 0 THEN 0 ELSE acc - delta)

\* C9: one step of the reducer returns the value of the specified reduction
\* and records the new offset as the previous offset of the next step.
C9_MatchesSpecifiedReduction ==
    [][/\ scrollback' = SpecifiedReduction(scrollback, lastScrollTop, sample')
       /\ lastScrollTop' = sample']_vars

\* C9 witness: a downward scroll taken at accumulator 0, where the reducer's
\* guard skips the subtraction.
C9_Witness ==
    /\ Len(hist) >= 1
    /\ hist[1].scrollback = 0
    /\ sample > hist[1].lastScrollTop
    /\ lastScrollTop = sample
    /\ scrollback = 0


\* ---- Form ---------------------------------------------------------------

\* C2: when the parent re-renders the Form with an instance a mounted
\* control reported through onChangeInstance, no Control is constructed and
\* no control is destroyed during that update.
C2_NoRemountOnOwnChange ==
    [][(/\ lastOp.op = "onChangeInstance"
        /\ lastOp.control \in Live
        /\ lastOp'.op = "applyReported"
        /\ lastOp'.arg = lastOp.arg) =>
           /\ controls' = controls
           /\ destroyed' = destroyed]_vars

\* C3: when the parent changes the instance prop to a value that did not
\* come from the control, a new Control bound to that value is constructed
\* and appended, and every control mounted before is destroyed.
C3_RemountOnExternalChange ==
    [][lastOp'.op = "externalChange" =>
           /\ Len(controls') = Len(controls) + 1
           /\ controls'[Len(controls')].instance = instance'
           /\ Len(controls') \in container'
           /\ Live \subseteq destroyed']_vars

\* C4: when the effect is torn down by an unmount or by a change of a
\* non-instance dependency, every control mounted at that moment is
\* destroyed.
C4_TeardownDestroys ==
    [][lastOp'.op \in {"unmount", "changeDeps"} =>
           Live \subseteq destroyed']_vars

\* The message the notice is specified to carry.
ExpectedMessage(e) ==
    IF ~e.nullish /\ e.message # Undefined THEN e.message ELSE Fallback

\* C8: onError creates exactly one notice of type 'error' carrying the
\* error's message or else the fallback text, and changes nothing else: no
\* control is constructed or destroyed, the two instance sets keep their
\* contents and onChangeInstance is not called.
C8_ErrorIsNoticeOnly ==
    [][lastOp'.op = "onError" =>
           /\ Len(notices') = Len(notices) + 1
           /\ SubSeq(notices', 1, Len(notices)) = notices
           /\ \E e \in Errors :
                  /\ ErrorIndex(e) = lastOp'.arg
                  /\ notices'[Len(notices')] =
                         [type |-> "error", message |-> ExpectedMessage(e)]
           /\ UNCHANGED <<controls, container, destroyed, cleanup,
                          outgoingInstances, incomingInstances, unapplied,
                          instance, phase>>]_vars

\* C8 witness: two notices, the first with the fallback text and the second
\* with the error's own message, while the control is still mounted.
C8_Witness ==
    /\ lastOp.op = "onError"
    /\ lastOp.control \in Live
    /\ Len(notices) = 2
    /\ notices[1].message = Fallback
    /\ notices[2].message = "boom"

\* C10: at most one constructed and not destroyed Control is in the
\* container, and none is left once the Form is unmounted.
C10_SingleLiveControl ==
    /\ Cardinality(Live) <= 1
    /\ phase = "unmounted" => Live = {}

====
